---- MODULE Spec2Model ----
(***************************************************************************)
(* A model of hwpparser: the chunker (workflows.chunk_text), the batch     *)
(* converter (workflows.batch_convert with converter.convert), the table   *)
(* flattener (reader._parse_table_to_markdown) and the rich-text assembler *)
(* (reader._html_to_rich_text).                                            *)
(*                                                                         *)
(* A Python str is a sequence of one-character strings.  Every subsystem   *)
(* has its own specification (SpecChunk, SpecBatch, ...); the variables of *)
(* the other subsystems stay at their idle values.                         *)
(***************************************************************************)
EXTENDS Integers, Sequences, FiniteSets, TLC

VARIABLES
    pc,             \* the position of the running function
    \* ---- chunk_text
    text,           \* argument
    chunk_size,     \* argument
    chunk_overlap,  \* argument
    separator,      \* argument
    paragraphs,     \* text.split(separator)
    para_i,         \* how many paragraphs the for loop has consumed
    current_chunk,  \* the running buffer
    current_start,  \* the running offset
    chunks,         \* the list being returned
    buffers,        \* history: the unstripped buffer each chunk was emitted from
    placed,         \* history: where each consumed piece was put (chunk, offset)
    \* ---- batch_convert
    output_format,  \* argument
    recursive,      \* argument
    on_progress,    \* argument: TRUE when a callback is given
    hwp_files,      \* the list the glob returned
    batch_i,        \* how many files the for loop has finished
    result,         \* the BatchResult being filled
    fs_dirs,        \* directories that exist under the output root
    fs_files,       \* output artifacts written so far
    attempted,      \* history: the files whose per-file step was started
    succeeded,      \* history: the files counted into result.success
    raised,         \* history: the files whose per-file step raised, with the message
    \* ---- _parse_table_to_markdown
    table,          \* argument: the rows (tr) of the table, each a list of cells
    table_md,       \* the string returned
    \* ---- _html_to_rich_text
    html,           \* argument: the elements of the parsed body, in document order
    soup,           \* the tree, tables replaced by their placeholder
    table_markdowns, \* the flattened tables that were kept
    full_text,      \* the extracted text, then with the tables substituted
    rich_text,      \* the string returned
    \* ---- HWPLoader
    ld_env,         \* per file: whether it exists and what hwp5txt does with it
    file_paths,     \* self.file_paths
    ld_i,           \* how many of file_paths the loop is done with
    documents,      \* load: the list being built; lazy_load: the documents yielded
    ld_pulls,       \* how many times the consumer called next() on the iterator
    ld_log,         \* history: the extractions attempted
    loaded,         \* the list load() returned, wrapped in a 1-tuple; <<>> before
    \* ---- convert, hwp_to_text and HWPReader called on one path
    api_env,        \* whether the path exists and what the external tool does
    api_args,       \* the arguments of the convert call
    api_result,     \* what the call did: error raised, calls made in order, ...
    _text,          \* HWPReader._text
    _html,          \* HWPReader._html
    _rich_text,     \* HWPReader._rich_text
    rd_runs,        \* per property, how many times its extraction ran
    rd_hist,        \* history: the property accesses
    \* ---- BatchResult.success_rate
    batch_result,   \* self: a BatchResult
    success_rate,   \* what the property returned
    \* ---- cli.main
    cli_env,        \* whether the input path exists and what the external tool does
    argv,           \* the parsed command line: command and arguments
    cli_raised,     \* what the command handler raised (None: it returned)
    exit_code,      \* what main returned
    stderr_prefix   \* the prefix of the message main printed to stderr

chunkVars == <<text, chunk_size, chunk_overlap, separator, paragraphs, para_i,
               current_chunk, current_start, chunks, buffers, placed>>
batchVars == <<output_format, recursive, on_progress, hwp_files, batch_i, result,
               fs_dirs, fs_files, attempted, succeeded, raised>>
tableVars == <<table, table_md>>
richVars == <<html, soup, table_markdowns, full_text, rich_text>>
loaderVars == <<ld_env, file_paths, ld_i, documents, ld_pulls, ld_log, loaded>>
apiVars == <<api_env, api_args, api_result, _text, _html, _rich_text, rd_runs, rd_hist>>
rateVars == <<batch_result, success_rate>>
cliVars == <<cli_env, argv, cli_raised, exit_code, stderr_prefix>>
vars == <<pc, chunkVars, batchVars, tableVars, richVars, loaderVars, apiVars, rateVars, cliVars>>
notChunkVars == <<batchVars, tableVars, richVars, loaderVars, apiVars, rateVars, cliVars>>
notBatchVars == <<chunkVars, tableVars, richVars, loaderVars, apiVars, rateVars, cliVars>>
notTableVars == <<chunkVars, batchVars, richVars, loaderVars, apiVars, rateVars, cliVars>>
notRichVars == <<chunkVars, batchVars, tableVars, loaderVars, apiVars, rateVars, cliVars>>
notLoaderVars == <<chunkVars, batchVars, tableVars, richVars, apiVars, rateVars, cliVars>>
notApiVars == <<chunkVars, batchVars, tableVars, richVars, loaderVars, rateVars, cliVars>>
notRateVars == <<chunkVars, batchVars, tableVars, richVars, loaderVars, apiVars, cliVars>>
notCliVars == <<chunkVars, batchVars, tableVars, richVars, loaderVars, apiVars, rateVars>>

(***************************************************************************)
(* Bounds of the model.                                                    *)
(***************************************************************************)
MaxTextLen == 5
MaxChunkSize == 3
MaxOverlap == 2
MaxFiles == 3
MaxRows == 2
MaxCells == 2
MaxSpan == 2
MaxNodes == 3
MaxLoad == 3
MaxAccess == 3
MaxTotal == 6

(***************************************************************************)
(* Python str operations.                                                  *)
(***************************************************************************)
Whitespace == {" ", "\n", "\r", "\t"}

RECURSIVE LStrip(_)
LStrip(s) ==
    IF s = <<>> THEN s
    ELSE IF Head(s) \in Whitespace THEN LStrip(Tail(s)) ELSE s

RECURSIVE RStrip(_)
RStrip(s) ==
    IF s = <<>> THEN s
    ELSE IF s[Len(s)] \in Whitespace THEN RStrip(SubSeq(s, 1, Len(s) - 1)) ELSE s

\* str.strip()
Strip(s) == RStrip(LStrip(s))

StartsWith(s, p) == Len(p) <= Len(s) /\ SubSeq(s, 1, Len(p)) = p

\* str.split(sep) for a non-empty sep: cut at each occurrence of sep, scanning
\* from the left; cur is the piece being collected.
RECURSIVE SplitAcc(_, _, _)
SplitAcc(s, sep, cur) ==
    IF s = <<>> THEN <<cur>>
    ELSE IF StartsWith(s, sep)
         THEN <<cur>> \o SplitAcc(SubSeq(s, Len(sep) + 1, Len(s)), sep, <<>>)
         ELSE SplitAcc(Tail(s), sep, Append(cur, Head(s)))

Split(s, sep) == SplitAcc(s, sep, <<>>)

\* s[-k:] for k > 0
LastChars(s, k) == IF k >= Len(s) THEN s ELSE SubSeq(s, Len(s) - k + 1, Len(s))

\* sub in s
Contains(s, sub) ==
    \E i \in 0..(Len(s) - Len(sub)) : SubSeq(s, i + 1, i + Len(sub)) = sub

\* sep.join(parts)
RECURSIVE Join(_, _)
Join(sep, parts) ==
    IF parts = <<>> THEN <<>>
    ELSE IF Len(parts) = 1 THEN parts[1]
    ELSE parts[1] \o sep \o Join(sep, Tail(parts))

\* s.replace(old, new) for a non-empty old: every occurrence, scanning from the left
RECURSIVE Replace(_, _, _)
Replace(s, old, new) ==
    IF s = <<>> THEN <<>>
    ELSE IF StartsWith(s, old)
         THEN new \o Replace(SubSeq(s, Len(old) + 1, Len(s)), old, new)
         ELSE <<Head(s)>> \o Replace(Tail(s), old, new)

\* how many newlines s starts with
RECURSIVE LeadingNewlines(_)
LeadingNewlines(s) ==
    IF s = <<>> \/ Head(s) # "\n" THEN 0 ELSE 1 + LeadingNewlines(Tail(s))

\* mutant of CollapseNewlines: runs of newlines are left as they are
CollapseNewlinesNever(s) == s

\* re.sub(r'\n{3,}', '\n\n', s)
RECURSIVE CollapseNewlines(_)
CollapseNewlines(s) ==
    IF s = <<>> THEN <<>>
    ELSE IF Head(s) = "\n"
         THEN LET k == LeadingNewlines(s)
              IN (IF k >= 3 THEN <<"\n", "\n">> ELSE SubSeq(s, 1, k))
                 \o CollapseNewlines(SubSeq(s, k + 1, Len(s)))
         ELSE <<Head(s)>> \o CollapseNewlines(Tail(s))

\* str(n) for n >= 0
Digits == <<"0", "1", "2", "3", "4", "5", "6", "7", "8", "9">>

RECURSIVE IntStr(_)
IntStr(n) ==
    IF n < 10 THEN <<Digits[n + 1]>>
    ELSE IntStr(n \div 10) \o <<Digits[(n % 10) + 1]>>

StringsUpTo(alphabet, n) == UNION {[1..k -> alphabet] : k \in 0..n}

(***************************************************************************)
(* The values the variables of a subsystem keep while another one runs.    *)
(***************************************************************************)
None == "None"

NoErrors == [k \in {} |-> <<>>]

ChunkIdle ==
    /\ text = <<>> /\ chunk_size = 0 /\ chunk_overlap = 0 /\ separator = <<>>
    /\ paragraphs = <<>> /\ para_i = 0 /\ current_chunk = <<>>
    /\ current_start = 0 /\ chunks = <<>> /\ buffers = <<>> /\ placed = <<>>

TableIdle == table = <<>> /\ table_md = <<>>

RichIdle ==
    /\ html = <<>> /\ soup = <<>> /\ table_markdowns = <<>>
    /\ full_text = <<>> /\ rich_text = <<>>

CliIdle ==
    /\ cli_env = <<>> /\ argv = <<>> /\ cli_raised = None /\ exit_code = 0
    /\ stderr_prefix = None

RateIdle == batch_result = <<>> /\ success_rate = <<>>

ApiIdle ==
    /\ api_env = <<>> /\ api_args = <<>> /\ api_result = <<>>
    /\ _text = None /\ _html = None /\ _rich_text = None
    /\ rd_runs = <<>> /\ rd_hist = <<>>

LoaderIdle ==
    /\ ld_env = <<>> /\ file_paths = <<>> /\ ld_i = 0 /\ documents = <<>>
    /\ ld_pulls = 0 /\ ld_log = <<>> /\ loaded = <<>>

BatchIdle ==
    /\ output_format = None /\ recursive = FALSE /\ on_progress = FALSE
    /\ hwp_files = <<>> /\ batch_i = 0
    /\ result = [total |-> 0, success |-> 0, failed |-> 0, errors |-> NoErrors]
    /\ fs_dirs = {} /\ fs_files = {} /\ attempted = <<>> /\ succeeded = <<>>
    /\ raised = <<>>

(***************************************************************************)
(* chunk_text                                                              *)
(***************************************************************************)
ChunkChars == {"a", "b", "\n"}
ChunkTexts == StringsUpTo(ChunkChars, MaxTextLen)
ChunkSizes == (-1)..MaxChunkSize
ChunkOverlaps == (-1)..MaxOverlap
Separators == {<<"\n", "\n">>, <<"\n">>, <<"b">>, <<>>}

\* mutant of TextChunk: a 1-based index
TextChunkIndexFromOne(buf, start, sofar) ==
    [text |-> Strip(buf), index |-> Len(sofar) + 1,
     metadata |-> [start |-> start, end |-> start + Len(buf)]]

\* mutant of TextChunk: the span measured on the stripped text
TextChunkStrippedSpan(buf, start, sofar) ==
    [text |-> Strip(buf), index |-> Len(sofar),
     metadata |-> [start |-> start, end |-> start + Len(Strip(buf))]]

\* TextChunk(text=current_chunk.strip(), index=len(chunks),
\*           metadata={"start": current_start, "end": current_start + len(current_chunk)})
TextChunk(buf, start, sofar) ==
    [text |-> Strip(buf), index |-> Len(sofar),
     metadata |-> [start |-> start, end |-> start + Len(buf)]]

\* mutant of NotText: the early return is never taken
NotTextNever(t) == FALSE

\* "not text" of the early return: the string is empty
NotText(t) == t = <<>>

\* mutant of ShouldFlush: only the new paragraph is measured
ShouldFlushParaOnly(cur, para, size) == Len(para) > size /\ cur # <<>>

\* mutant of ShouldFlush: an empty buffer is saved too
ShouldFlushEmptyBufferToo(cur, para, size) == Len(cur) + Len(para) > size

\* len(current_chunk) + len(para) > chunk_size and current_chunk
ShouldFlush(cur, para, size) == Len(cur) + Len(para) > size /\ cur # <<>>

\* current_chunk[-chunk_overlap:] if chunk_overlap > 0 else ""
OverlapText(cur, overlap) == IF overlap > 0 THEN LastChars(cur, overlap) ELSE <<>>

\* mutant of FlushedBuffer: the new buffer is seeded without the separator
FlushedBufferNoSeparator(cur, overlap, sep, para) == OverlapText(cur, overlap) \o para

\* overlap_text + separator + para
FlushedBuffer(cur, overlap, sep, para) == OverlapText(cur, overlap) \o sep \o para

\* current_start + len(current_chunk) - len(overlap_text), current_chunk being
\* the new buffer already
NextStart(start, newbuf, overlapText) == start + Len(newbuf) - Len(overlapText)

\* current_chunk += separator + para if current_chunk else para
AppendedBuffer(cur, sep, para) == IF cur # <<>> THEN cur \o sep \o para ELSE para

\* the for loop and the final chunk as one computation: paras are the pieces
\* still to come, cur and start the buffer and its start, sofar the chunks
RECURSIVE ChunkLoop(_, _, _, _, _, _, _)
ChunkLoop(paras, cur, start, sofar, size, overlap, sep) ==
    IF paras = <<>>
    THEN IF Strip(cur) # <<>> THEN Append(sofar, TextChunk(cur, start, sofar)) ELSE sofar
    ELSE LET para == Head(paras)
         IN IF ShouldFlush(cur, para, size)
            THEN LET newbuf == FlushedBuffer(cur, overlap, sep, para)
                 IN ChunkLoop(Tail(paras), newbuf,
                              NextStart(start, newbuf, OverlapText(cur, overlap)),
                              Append(sofar, TextChunk(cur, start, sofar)),
                              size, overlap, sep)
            ELSE ChunkLoop(Tail(paras), AppendedBuffer(cur, sep, para), start, sofar,
                           size, overlap, sep)

\* chunk_text(t, size, overlap, sep) as a value: the list returned (sep is not
\* empty when t is not)
ChunkTextResult(t, size, overlap, sep) ==
    IF NotText(t) THEN <<>> ELSE ChunkLoop(Split(t, sep), <<>>, 0, <<>>, size, overlap, sep)

InitChunk ==
    /\ pc = "chunk_start"
    /\ text \in ChunkTexts
    /\ chunk_size \in ChunkSizes
    /\ chunk_overlap \in ChunkOverlaps
    /\ separator \in Separators
    /\ paragraphs = <<>> /\ para_i = 0 /\ current_chunk = <<>>
    /\ current_start = 0 /\ chunks = <<>> /\ buffers = <<>> /\ placed = <<>>
    /\ BatchIdle
    /\ TableIdle
    /\ RichIdle
    /\ LoaderIdle
    /\ ApiIdle
    /\ RateIdle
    /\ CliIdle

\* if not text: return []
ChunkEmptyText ==
    /\ pc = "chunk_start"
    /\ NotText(text)
    /\ pc' = "chunk_done"
    /\ UNCHANGED <<chunkVars, notChunkVars>>

\* text.split("") raises ValueError: empty separator
ChunkSplitRaises ==
    /\ pc = "chunk_start"
    /\ ~NotText(text)
    /\ separator = <<>>
    /\ pc' = "chunk_raised"
    /\ UNCHANGED <<chunkVars, notChunkVars>>

\* paragraphs = text.split(separator); current_chunk = ""; current_start = 0
ChunkSplit ==
    /\ pc = "chunk_start"
    /\ ~NotText(text)
    /\ separator # <<>>
    /\ paragraphs' = Split(text, separator)
    /\ current_chunk' = <<>>
    /\ current_start' = 0
    /\ para_i' = 0
    /\ pc' = "chunk_loop"
    /\ UNCHANGED <<text, chunk_size, chunk_overlap, separator, chunks, buffers, placed>>
    /\ UNCHANGED notChunkVars

\* one iteration of the for loop, the branch that saves the buffer
ChunkFlush ==
    /\ pc = "chunk_loop"
    /\ para_i < Len(paragraphs)
    /\ LET para == paragraphs[para_i + 1]
           overlap_text == OverlapText(current_chunk, chunk_overlap)
           newbuf == FlushedBuffer(current_chunk, chunk_overlap, separator, para)
       IN /\ ShouldFlush(current_chunk, para, chunk_size)
          /\ chunks' = Append(chunks, TextChunk(current_chunk, current_start, chunks))
          /\ buffers' = Append(buffers, current_chunk)
          /\ current_chunk' = newbuf
          /\ current_start' = NextStart(current_start, newbuf, overlap_text)
          /\ placed' = Append(placed, [chunk |-> Len(chunks) + 2,
                                      off |-> Len(newbuf) - Len(para)])
    /\ para_i' = para_i + 1
    /\ UNCHANGED <<pc, text, chunk_size, chunk_overlap, separator, paragraphs>>
    /\ UNCHANGED notChunkVars

\* one iteration of the for loop, the branch that grows the buffer
ChunkAppend ==
    /\ pc = "chunk_loop"
    /\ para_i < Len(paragraphs)
    /\ LET para == paragraphs[para_i + 1]
           newbuf == AppendedBuffer(current_chunk, separator, para)
       IN /\ ~ShouldFlush(current_chunk, para, chunk_size)
          /\ current_chunk' = newbuf
          /\ placed' = Append(placed, [chunk |-> Len(chunks) + 1,
                                      off |-> Len(newbuf) - Len(para)])
    /\ para_i' = para_i + 1
    /\ UNCHANGED <<pc, text, chunk_size, chunk_overlap, separator, paragraphs,
                   current_start, chunks, buffers>>
    /\ UNCHANGED notChunkVars

\* after the loop: if current_chunk.strip(): chunks.append(...); return chunks
ChunkFinal ==
    /\ pc = "chunk_loop"
    /\ para_i = Len(paragraphs)
    /\ IF Strip(current_chunk) # <<>>
       THEN /\ chunks' = Append(chunks, TextChunk(current_chunk, current_start, chunks))
            /\ buffers' = Append(buffers, current_chunk)
       ELSE UNCHANGED <<chunks, buffers>>
    /\ pc' = "chunk_done"
    /\ UNCHANGED <<text, chunk_size, chunk_overlap, separator, paragraphs, para_i,
                   current_chunk, current_start, placed>>
    /\ UNCHANGED notChunkVars

NextChunk ==
    \/ ChunkEmptyText
    \/ ChunkSplitRaises
    \/ ChunkSplit
    \/ ChunkFlush
    \/ ChunkAppend
    \/ ChunkFinal

SpecChunk == InitChunk /\ [][NextChunk]_vars

\* the call runs to its end: the interpreter keeps executing the loop
SpecChunkLive == SpecChunk /\ WF_vars(NextChunk)

(***************************************************************************)
(* Claims about chunk_text (checked under SpecChunk).                      *)
(***************************************************************************)
HasNonWs(s) == \E i \in 1..Len(s) : s[i] \notin Whitespace

\* C1: the chunks of one call carry index 0, 1, ..., N-1 in list order,
\* whether emitted by a flush or as the final chunk.
C1_IndexDense == \A i \in 1..Len(chunks) : chunks[i].index = i - 1

\* two flushed chunks followed by a final one
C1_Witness ==
    /\ pc = "chunk_done"
    /\ Len(chunks) >= 3
    /\ Strip(current_chunk) # <<>>

\* C2: every chunk has integer start and end with 0 <= start <= end, end - start
\* is the length of the unstripped buffer it was emitted from (so at least the
\* length of its text), and its text is that buffer stripped.
C2_SpanOfBuffer ==
    /\ Len(buffers) = Len(chunks)
    /\ \A i \in 1..Len(chunks) :
          LET m == chunks[i].metadata
          IN /\ m.start \in Int /\ m.end \in Int
             /\ 0 <= m.start /\ m.start <= m.end
             /\ m.end - m.start = Len(buffers[i])
             /\ m.end - m.start >= Len(chunks[i].text)
             /\ chunks[i].text = Strip(buffers[i])

\* a later chunk whose buffer is longer than its text
C2_Witness ==
    /\ pc = "chunk_done"
    /\ \E i \in 1..Len(chunks) :
          /\ chunks[i].metadata.start > 0
          /\ chunks[i].metadata.end - chunks[i].metadata.start > Len(chunks[i].text)
          /\ chunks[i].text # <<>>

\* the pieces of the input that contain a non-whitespace character
SolidPieces == {k \in 1..Len(paragraphs) : HasNonWs(paragraphs[k])}

\* an oversized solid piece is the last piece of the buffer it was put in
OversizedPieceEndsBuffer(k) ==
    Len(paragraphs[k]) > chunk_size
        => placed[k].off + Len(paragraphs[k]) = Len(buffers[placed[k].chunk])

\* solid pieces are put in input order
PiecesInOrder(k) ==
    \A j \in SolidPieces :
        j < k => \/ placed[j].chunk < placed[k].chunk
                 \/ /\ placed[j].chunk = placed[k].chunk
                    /\ placed[j].off + Len(paragraphs[j]) <= placed[k].off

\* C3 as stated: every solid piece appears whole inside the text of an emitted
\* chunk, pieces are in input order, and an oversized piece gets no later piece
\* appended.
C3_PieceWholeInChunkText ==
    pc = "chunk_done" =>
        \A k \in SolidPieces :
            /\ placed[k].chunk \in 1..Len(chunks)
            /\ \E c \in 1..Len(chunks) : Contains(chunks[c].text, paragraphs[k])
            /\ PiecesInOrder(k)
            /\ OversizedPieceEndsBuffer(k)

\* C3 amended: every solid piece appears whole inside the unstripped buffer of
\* an emitted chunk, and its stripped form appears whole in that chunk's text
\* (strip() removes only whitespace at the two ends of the buffer); pieces are
\* in input order, and an oversized solid piece gets no later piece appended.
C3_PieceWholeUpToStrip ==
    pc = "chunk_done" =>
        \A k \in SolidPieces :
            LET p == paragraphs[k]
                c == placed[k].chunk
                off == placed[k].off
            IN /\ c \in 1..Len(chunks)
               /\ SubSeq(buffers[c], off + 1, off + Len(p)) = p
               /\ LET lead == Len(buffers[c]) - Len(LStrip(buffers[c]))
                      pos == off + (Len(p) - Len(LStrip(p))) - lead
                  IN /\ pos >= 0
                     /\ SubSeq(chunks[c].text, pos + 1, pos + Len(Strip(p))) = Strip(p)
               /\ PiecesInOrder(k)
               /\ OversizedPieceEndsBuffer(k)

\* an oversized solid piece with whitespace at an end, followed by more pieces
C3_Witness ==
    /\ pc = "chunk_done"
    /\ chunk_size >= 1
    /\ \E k \in SolidPieces :
          /\ k < Len(paragraphs)
          /\ Len(paragraphs[k]) > chunk_size
          /\ Strip(paragraphs[k]) # paragraphs[k]
          /\ ~Contains(chunks[placed[k].chunk].text, paragraphs[k])

\* C18: chunk_text returns an empty list for the empty string, for every
\* chunk_size, chunk_overlap and separator.
C18_EmptyTextNoChunks ==
    text = <<>> =>
        /\ pc # "chunk_raised"
        /\ pc = "chunk_done" => chunks = <<>>

\* the empty string with an empty separator and negative size and overlap
C18_Witness ==
    /\ pc = "chunk_done"
    /\ text = <<>>
    /\ separator = <<>>
    /\ chunk_size = -1
    /\ chunk_overlap = -1

\* the texts of a list of chunks
TextsOf(cs) == [i \in 1..Len(cs) |-> cs[i].text]

\* C12: with zero overlap, chunking the texts of the chunks joined with the
\* separator, with the same chunk_size and separator, gives the same sequence of
\* chunk texts.
C12_RechunkSameTexts ==
    (pc = "chunk_done" /\ chunk_overlap = 0) =>
        TextsOf(ChunkTextResult(Join(separator, TextsOf(chunks)), chunk_size, 0,
                                separator)) = TextsOf(chunks)

\* a step of the for loop that takes the next piece
LoopStep == pc = "chunk_loop" /\ para_i < Len(paragraphs) /\ para_i' = para_i + 1

\* the loop step saved the buffer as a chunk
Flushed == Len(chunks') = Len(chunks) + 1

\* C21: a piece that arrives at a non-empty buffer causes a flush exactly when
\* len(buffer) + len(separator) + len(piece) > chunk_size; otherwise it is
\* appended, and the buffer grown by appending has at most chunk_size characters.
C21_FlushIffOverSize ==
    [][(LoopStep /\ current_chunk # <<>>) =>
          LET para == paragraphs[para_i + 1]
              over == Len(current_chunk) + Len(separator) + Len(para) > chunk_size
          IN /\ over <=> Flushed
             /\ ~over => /\ current_chunk' = current_chunk \o separator \o para
                         /\ Len(current_chunk') <= chunk_size]_vars

\* C22: for consecutive chunks n and n+1, start(n+1) = end(n) - len(overlap text
\* carried from chunk n); with chunk_overlap <= 0 the spans are contiguous.
C22_StartAdvancesByFlushedBuffer ==
    \A n \in 1..(Len(chunks) - 1) :
        LET carried == IF chunk_overlap <= 0 THEN 0
                       ELSE IF chunk_overlap < Len(buffers[n]) THEN chunk_overlap
                       ELSE Len(buffers[n])
        IN /\ chunks[n + 1].metadata.start = chunks[n].metadata.end - carried
           /\ chunk_overlap <= 0 =>
                 chunks[n + 1].metadata.start = chunks[n].metadata.end

\* the last min(chunk_overlap, len(buf)) characters of buf, nothing when
\* chunk_overlap <= 0
TailOf(buf) ==
    IF chunk_overlap <= 0 THEN <<>>
    ELSE IF chunk_overlap >= Len(buf) THEN buf
    ELSE [i \in 1..chunk_overlap |-> buf[Len(buf) - chunk_overlap + i]]

\* C23: after each flush the new buffer is exactly the last
\* min(chunk_overlap, len(flushed buffer)) characters of the flushed buffer
\* (nothing when chunk_overlap <= 0), then the separator, then the current
\* piece; so the unstripped buffer of every chunk after the first starts with
\* that tail of its predecessor, followed by the separator.
C23_NewBufferSeededWithTail ==
    /\ [][(LoopStep /\ Flushed) =>
             current_chunk' = TailOf(current_chunk) \o separator
                                  \o paragraphs[para_i + 1]]_vars
    /\ [](\A n \in 1..(Len(buffers) - 1) :
             StartsWith(buffers[n + 1], TailOf(buffers[n]) \o separator))

\* a flushed buffer longer than the overlap, and one shorter, each followed by a chunk
C23_Witness ==
    /\ pc = "chunk_done"
    /\ chunk_overlap = 2
    /\ Len(buffers) >= 3
    /\ Len(buffers[1]) < chunk_overlap
    /\ Len(buffers[2]) > chunk_overlap

\* C27: every chunk emitted, by a flush during the walk or at the end, has
\* non-empty text after stripping: a buffer of whitespace only never becomes a
\* chunk.
C27_NoBlankChunk ==
    \A i \in 1..Len(chunks) : chunks[i].text # <<>> /\ HasNonWs(buffers[i])

\* C28: chunk_text terminates for every input (by returning, or by the
\* ValueError of an empty separator), each piece is consumed exactly once, each
\* piece triggers at most one flush, and the chunks returned are at most as many
\* as the separator-delimited pieces.
C28_TerminatesWithinPieces ==
    /\ <>(pc \in {"chunk_done", "chunk_raised"})
    /\ [][para_i' \in {0, para_i, para_i + 1}
          /\ Len(chunks') \in {Len(chunks), Len(chunks) + 1}
          /\ (pc = "chunk_loop" /\ para_i' = para_i) => pc' # "chunk_loop"]_vars
    /\ [](/\ Len(placed) = para_i
          /\ para_i <= Len(paragraphs)
          /\ (pc = "chunk_done" /\ text # <<>>) =>
                /\ para_i = Len(paragraphs)
                /\ Len(chunks) <= Len(paragraphs))

\* a call with chunk_overlap >= chunk_size and chunk_size <= 0 that returned as
\* many chunks as there were pieces
C28_Witness ==
    /\ pc = "chunk_done"
    /\ chunk_size <= 0
    /\ chunk_overlap >= 1
    /\ Len(paragraphs) >= 3
    /\ Len(chunks) = Len(paragraphs)

(***************************************************************************)
(* Paths (pathlib.Path): the directory names, the stem and the suffix      *)
(* without its dot.                                                        *)
(***************************************************************************)
InputDir == <<"in">>
OutputDir == <<"out">>

\* str(path): the parts joined by "/"
PathStr(p) == p.dir \o <<p.stem, ".", p.ext>>

\* path.name
PathName(p) == <<p.stem, ".", p.ext>>

\* path.relative_to(base), base being a prefix of the path's directory
RelativeTo(p, base) == [p EXCEPT !.dir = SubSeq(p.dir, Len(base) + 1, Len(p.dir))]

\* path.with_suffix("." + fmt)
WithSuffix(p, fmt) == [p EXCEPT !.ext = fmt]

\* base / relative
JoinPath(base, rel) == [rel EXCEPT !.dir = base \o rel.dir]

\* what dir.mkdir(parents=True, exist_ok=True) makes exist
MkdirParents(dirs, dir) == dirs \cup {SubSeq(dir, 1, k) : k \in 1..Len(dir)}

(***************************************************************************)
(* converter.convert                                                       *)
(***************************************************************************)
\* mutant of Lower: the format names are compared as given
LowerIdentity(s) == s

\* str.lower() on the format names the model uses
Lower(s) ==
    CASE s = "HWP" -> "hwp"
      [] s = "TXT" -> "txt"
      [] s = "PDF" -> "pdf"
      [] OTHER -> s

\* EXTENSION_TO_FORMAT.get(ext, ext.lstrip(".")) on the lower-cased suffix
GetFormatFromExtension(ext) ==
    LET e == Lower(ext)
    IN CASE e = "hwp" -> "hwp"
         [] e = "hwpx" -> "hwpx"
         [] e = "md" -> "markdown"
         [] e = "markdown" -> "markdown"
         [] e = "html" -> "html"
         [] e = "htm" -> "html"
         [] e = "docx" -> "docx"
         [] e = "txt" -> "text"
         [] e = "odt" -> "odt"
         [] e = "pdf" -> "pdf"
         [] OTHER -> e

\* the keys of SUPPORTED_CONVERSIONS
SupportedConversions ==
    {<<"hwp", "text">>, <<"hwp", "txt">>, <<"hwp", "html">>, <<"hwp", "odt">>,
     <<"hwp", "pdf">>, <<"markdown", "hwpx">>, <<"md", "hwpx">>, <<"html", "hwpx">>}

\* what the external tools of one conversion can do
ToolOutcomes == {"ok", "DependencyError", "ConversionError"}

\* the calls a converter function makes, in order, for a tool outcome
ConverterSteps(tool) ==
    <<"converter_func", "validate_file_exists", "check_command_exists">>
    \o (IF tool = "DependencyError" THEN <<>> ELSE <<"run_command">>)

\* supported = [f"{i}→{o}" for i, o in SUPPORTED_CONVERSIONS]
SupportedList == {<<k[1], "→", k[2]>> : k \in SupportedConversions}

\* convert raising kind after the calls ran; an UnsupportedFormatError carries
\* the list of the supported pairs
ConvertRaises(kind, ran) ==
    [raised |-> kind, wrote |-> FALSE, called |-> None, ran |-> ran,
     supported |-> IF kind = "UnsupportedFormatError" THEN SupportedList ELSE {}]

\* convert(input_path, output_path, input_format=..., output_format=...):
\* exists: the input file exists; in_ext, out_ext: the suffixes of the two paths
\* (out_ext is None when no output path is given); tool: what the external tools
\* do.  The result: the error raised (or None), whether the file at output_path
\* was written, the converter called, and the calls made in order.
Convert(exists, in_ext, input_format, out_ext, fmt, tool) ==
    IF ~exists THEN ConvertRaises("HWPFileNotFoundError", <<"validate_file_exists">>)
    ELSE LET in_fmt == IF input_format = None
                       THEN GetFormatFromExtension(in_ext) ELSE input_format
             out_fmt == IF fmt = None /\ out_ext # None
                        THEN GetFormatFromExtension(out_ext) ELSE fmt
             detected ==
                 <<"validate_file_exists">>
                 \o (IF input_format = None THEN <<"get_format_from_extension">> ELSE <<>>)
                 \o (IF fmt = None /\ out_ext # None
                     THEN <<"get_format_from_extension">> ELSE <<>>)
             looked == detected \o <<"SUPPORTED_CONVERSIONS.get">>
         IN IF out_fmt = None THEN ConvertRaises("ValueError", detected)
            ELSE LET key == <<Lower(in_fmt), Lower(out_fmt)>>
                 IN IF key \notin SupportedConversions
                    THEN ConvertRaises("UnsupportedFormatError", looked)
                    ELSE IF key[2] \in {"text", "txt"}
                    THEN \* converter_func(input_path, None): the text is returned
                         [raised |-> IF tool = "ok" THEN None ELSE tool,
                          wrote |-> FALSE, called |-> key,
                          ran |-> looked \o ConverterSteps(tool), supported |-> {}]
                    ELSE IF out_ext = None THEN ConvertRaises("ValueError", looked)
                    ELSE [raised |-> IF tool = "ok" THEN None ELSE tool,
                          wrote |-> tool = "ok", called |-> key,
                          ran |-> looked \o ConverterSteps(tool), supported |-> {}]

(***************************************************************************)
(* batch_convert                                                           *)
(***************************************************************************)
\* the files a directory walk can find under input_dir
FilePool ==
    {[dir |-> IF i % 2 = 0 THEN InputDir \o <<"sub">> ELSE InputDir,
      stem |-> <<"f", i>>,
      ext |-> IF i % 3 = 0 THEN "md" ELSE "hwp"] : i \in 1..MaxFiles}

BatchFormats == {"txt", "html", "odt", "pdf", "hwpx"}

\* the lists without repetition over a set of files
Orderings(S) ==
    {f \in [1..Cardinality(S) -> S] : \A i, j \in 1..Cardinality(S) : i # j => f[i] # f[j]}

\* output_dir / hwp_file.relative_to(input_dir).with_suffix(f".{output_format}")
OutputFile(hwp_file, fmt) ==
    JoinPath(OutputDir, WithSuffix(RelativeTo(hwp_file, InputDir), fmt))

\* result.failed += 1; result.errors[str(hwp_file)] = str(e)
RecordFailure(res, hwp_file, msg) ==
    [res EXCEPT !.failed = @ + 1,
                !.errors = [k \in DOMAIN @ \cup {PathStr(hwp_file)} |->
                               IF k = PathStr(hwp_file) THEN msg ELSE @[k]]]

\* mutant of AfterFailure: the walk stops at the first failure
AbortAfterFailure(i, n) == n

\* the except branch ends the iteration: the for loop goes on with the next
\* file (i: the files finished so far, n: len(hwp_files))
AfterFailure(i, n) == i + 1

\* str(e) of the error a conversion raised for a file
ErrorMessage(kind, hwp_file) == <<kind, PathStr(hwp_file)>>

\* str(e) of an error the on_progress callback raised
CallbackMessages == {<<"RuntimeError", "callback">>}

InitBatch ==
    /\ pc = "batch_start"
    /\ output_format \in BatchFormats
    /\ recursive \in BOOLEAN
    /\ on_progress \in BOOLEAN
    /\ hwp_files = <<>> /\ batch_i = 0
    /\ result = [total |-> 0, success |-> 0, failed |-> 0, errors |-> NoErrors]
    /\ fs_dirs = {} /\ fs_files = {} /\ attempted = <<>> /\ succeeded = <<>>
    /\ raised = <<>>
    /\ ChunkIdle
    /\ TableIdle
    /\ RichIdle
    /\ LoaderIdle
    /\ ApiIdle
    /\ RateIdle
    /\ CliIdle

\* output_dir.mkdir(parents=True, exist_ok=True); hwp_files = list(glob or rglob);
\* result = BatchResult(total=len(hwp_files))
BatchStart ==
    /\ pc = "batch_start"
    /\ fs_dirs' = MkdirParents(fs_dirs, OutputDir)
    /\ \E matched \in SUBSET FilePool :
          /\ recursive \/ \A f \in matched : f.dir = InputDir
          /\ \E files \in Orderings(matched) :
                /\ hwp_files' = files
                /\ result' = [total |-> Len(files), success |-> 0, failed |-> 0,
                              errors |-> NoErrors]
    /\ pc' = "batch_loop"
    /\ UNCHANGED <<output_format, recursive, on_progress, batch_i, fs_files,
                   attempted, succeeded, raised>>
    /\ UNCHANGED notBatchVars

\* the try body up to result.success += 1, the conversion returning
BatchConvertReturns ==
    /\ pc = "batch_loop"
    /\ batch_i < Len(hwp_files)
    /\ LET hwp_file == hwp_files[batch_i + 1]
           output_file == OutputFile(hwp_file, output_format)
       IN \E tool \in ToolOutcomes :
             LET r == Convert(TRUE, hwp_file.ext, None, output_file.ext, None, tool)
             IN /\ r.raised = None
                /\ fs_dirs' = MkdirParents(fs_dirs, output_file.dir)
                /\ fs_files' = IF r.wrote THEN fs_files \cup {output_file} ELSE fs_files
                /\ result' = [result EXCEPT !.success = @ + 1]
                /\ succeeded' = Append(succeeded, hwp_file)
                /\ attempted' = Append(attempted, hwp_file)
    /\ IF on_progress
       THEN pc' = "batch_progress" /\ UNCHANGED batch_i
       ELSE pc' = "batch_loop" /\ batch_i' = batch_i + 1
    /\ UNCHANGED <<output_format, recursive, on_progress, hwp_files, raised>>
    /\ UNCHANGED notBatchVars

\* the try body, the conversion raising: the except branch runs
BatchConvertRaises ==
    /\ pc = "batch_loop"
    /\ batch_i < Len(hwp_files)
    /\ LET hwp_file == hwp_files[batch_i + 1]
           output_file == OutputFile(hwp_file, output_format)
       IN \E tool \in ToolOutcomes :
             LET r == Convert(TRUE, hwp_file.ext, None, output_file.ext, None, tool)
                 msg == ErrorMessage(r.raised, hwp_file)
             IN /\ r.raised # None
                /\ fs_dirs' = MkdirParents(fs_dirs, output_file.dir)
                /\ result' = RecordFailure(result, hwp_file, msg)
                /\ raised' = Append(raised, [file |-> hwp_file, msg |-> msg])
                /\ attempted' = Append(attempted, hwp_file)
    /\ batch_i' = AfterFailure(batch_i, Len(hwp_files))
    /\ UNCHANGED <<pc, output_format, recursive, on_progress, hwp_files, fs_files,
                   succeeded>>
    /\ UNCHANGED notBatchVars

\* on_progress(hwp_file, i + 1, result.total) returns
BatchProgressReturns ==
    /\ pc = "batch_progress"
    /\ batch_i' = batch_i + 1
    /\ pc' = "batch_loop"
    /\ UNCHANGED <<output_format, recursive, on_progress, hwp_files, result, fs_dirs,
                   fs_files, attempted, succeeded, raised>>
    /\ UNCHANGED notBatchVars

\* on_progress(hwp_file, i + 1, result.total) raises: the except branch runs
BatchProgressRaises ==
    /\ pc = "batch_progress"
    /\ LET hwp_file == hwp_files[batch_i + 1]
       IN \E msg \in CallbackMessages :
             /\ result' = RecordFailure(result, hwp_file, msg)
             /\ raised' = Append(raised, [file |-> hwp_file, msg |-> msg])
    /\ batch_i' = AfterFailure(batch_i, Len(hwp_files))
    /\ pc' = "batch_loop"
    /\ UNCHANGED <<output_format, recursive, on_progress, hwp_files, fs_dirs,
                   fs_files, attempted, succeeded>>
    /\ UNCHANGED notBatchVars

\* the loop is over: return result
BatchReturn ==
    /\ pc = "batch_loop"
    /\ batch_i = Len(hwp_files)
    /\ pc' = "batch_done"
    /\ UNCHANGED batchVars
    /\ UNCHANGED notBatchVars

NextBatch ==
    \/ BatchStart
    \/ BatchConvertReturns
    \/ BatchConvertRaises
    \/ BatchProgressReturns
    \/ BatchProgressRaises
    \/ BatchReturn

SpecBatch == InitBatch /\ [][NextBatch]_vars

(***************************************************************************)
(* Claims about batch_convert (checked under SpecBatch).                   *)
(***************************************************************************)
\* C4: in every state of a batch_convert walk total, success and failed are
\* non-negative and success + failed <= total, whatever the conversions and the
\* on_progress callback do.
C4_TallyWithinTotal ==
    /\ result.total >= 0 /\ result.success >= 0 /\ result.failed >= 0
    /\ result.success + result.failed <= result.total

\* C5: each matched file is counted in exactly one of success or failed: no file
\* counted in success has an entry in errors.
C5_SuccessDisjointFromErrors ==
    /\ \A i \in 1..Len(succeeded) : PathStr(succeeded[i]) \notin DOMAIN result.errors
    /\ pc = "batch_done" =>
          \A i \in 1..Len(hwp_files) :
              (\E j \in 1..Len(succeeded) : succeeded[j] = hwp_files[i])
                  # (PathStr(hwp_files[i]) \in DOMAIN result.errors)

\* C6: a per-file failure never aborts the walk: the files are attempted once
\* each in list order, and on completion total is the number of matched files,
\* failed the number of files whose processing raised, and errors has exactly
\* one entry per failed file, keyed by its path string, holding the message.
C6_WalkNeverAborts ==
    /\ attempted = SubSeq(hwp_files, 1, Len(attempted))
    /\ pc = "batch_done" =>
          /\ attempted = hwp_files
          /\ result.total = Len(hwp_files)
          /\ result.failed = Cardinality({raised[i].file : i \in 1..Len(raised)})
          /\ DOMAIN result.errors = {PathStr(raised[i].file) : i \in 1..Len(raised)}
          /\ Cardinality(DOMAIN result.errors) = result.failed
          /\ \A i \in 1..Len(raised) :
                result.errors[PathStr(raised[i].file)] = raised[i].msg

\* three files: the first fails, a later one is converted, another fails
C6_Witness ==
    /\ pc = "batch_done"
    /\ Len(hwp_files) = 3
    /\ result.failed = 2
    /\ result.success >= 1
    /\ raised[1].file = hwp_files[1]
    /\ succeeded[1] = hwp_files[2]

DocumentedFormats == {"txt", "html", "odt", "pdf"}

\* C7: for txt, html, odt and pdf, each input counted in success has an output
\* artifact at output_dir/<relative path with the suffix replaced>, in a
\* directory that was created.
C7_ArtifactPerSuccess ==
    (pc = "batch_done" /\ output_format \in DocumentedFormats) =>
        \A i \in 1..Len(succeeded) :
            /\ OutputFile(succeeded[i], output_format) \in fs_files
            /\ OutputFile(succeeded[i], output_format).dir \in fs_dirs

(***************************************************************************)
(* _extract_cell_text and _parse_table_to_markdown                         *)
(*                                                                         *)
(* A cell (td or th) is the list of the text nodes under it, with its      *)
(* rowspan and colspan attributes; a table is the list of its rows.        *)
(***************************************************************************)
NonEmpty(s) == s # <<>>

\* str(elem).strip(), then .replace('\r', '').replace('\n', ' ')
CleanCellNode(node) == Replace(Replace(Strip(node), <<"\r">>, <<>>), <<"\n">>, <<" ">>)

\* _extract_cell_text(cell)
ExtractCellText(cell) ==
    Strip(Join(<<" ">>, SelectSeq([i \in 1..Len(cell.nodes) |-> CleanCellNode(cell.nodes[i])],
                                  NonEmpty)))

\* n times the blank cell
BlankCells(n) == [i \in 1..n |-> <<" ">>]

\* mutant of CellTexts: colspan is ignored
RECURSIVE CellTextsNoColspan(_)
CellTextsNoColspan(row_cells) ==
    IF row_cells = <<>> THEN <<>>
    ELSE LET t == ExtractCellText(Head(row_cells))
         IN <<IF t # <<>> THEN t ELSE <<" ">> >> \o CellTextsNoColspan(Tail(row_cells))

\* the inner loop: cell_texts.append(text if text else " "), then colspan - 1
\* times cell_texts.append(" ")
RECURSIVE CellTexts(_)
CellTexts(row_cells) ==
    IF row_cells = <<>> THEN <<>>
    ELSE LET cell == Head(row_cells)
             t == ExtractCellText(cell)
         IN <<IF t # <<>> THEN t ELSE <<" ">> >>
            \o BlankCells(IF cell.colspan > 1 THEN cell.colspan - 1 ELSE 0)
            \o CellTexts(Tail(row_cells))

\* "| " + " | ".join(cell_texts) + " |"
RowLine(cell_texts) == <<"|", " ">> \o Join(<<" ", "|", " ">>, cell_texts) \o <<" ", "|">>

\* "|" + "|".join(["---" for _ in cell_texts]) + "|"
SeparatorLine(cell_texts) ==
    <<"|">> \o Join(<<"|">>, [i \in 1..Len(cell_texts) |-> <<"-", "-", "-">>]) \o <<"|">>

\* mutant of SeparatorAfter: a separator after every row
SeparatorAfterEveryRow(i) == TRUE

\* if i == 0: the row (numbered from 0) that is followed by the separator
SeparatorAfter(i) == i = 0

\* the loop over enumerate(table_data), from row number i on: rows without cells
\* are skipped
RECURSIVE TableLines(_, _)
TableLines(table_data, i) ==
    IF table_data = <<>> THEN <<>>
    ELSE IF Head(table_data) = <<>> THEN TableLines(Tail(table_data), i + 1)
    ELSE LET cell_texts == CellTexts(Head(table_data))
         IN <<RowLine(cell_texts)>>
            \o (IF SeparatorAfter(i) THEN <<SeparatorLine(cell_texts)>> ELSE <<>>)
            \o TableLines(Tail(table_data), i + 1)

\* _parse_table_to_markdown(table)
ParseTableToMarkdown(rows) ==
    IF rows = <<>> THEN <<>> ELSE Join(<<"\n">>, TableLines(rows, 0))

\* the cells a table of the model is made of
CellPool ==
    {[nodes |-> << <<"a", "\r", "\n", "b">>, <<" ", "c", "\n">> >>, rowspan |-> 1, colspan |-> 1],
     [nodes |-> << <<"\n", " ">> >>, rowspan |-> 1, colspan |-> 1],
     [nodes |-> << <<"x">> >>, rowspan |-> MaxSpan, colspan |-> MaxSpan]}

RowSpace == UNION {[1..n -> CellPool] : n \in 0..MaxCells}
TableSpace == UNION {[1..n -> RowSpace] : n \in 0..MaxRows}

InitTable ==
    /\ pc = "table_start"
    /\ table \in TableSpace
    /\ table_md = <<>>
    /\ ChunkIdle
    /\ BatchIdle
    /\ RichIdle
    /\ LoaderIdle
    /\ ApiIdle
    /\ RateIdle
    /\ CliIdle

\* if not rows: return ""
TableNoRows ==
    /\ pc = "table_start"
    /\ table = <<>>
    /\ table_md' = ParseTableToMarkdown(table)
    /\ pc' = "table_done"
    /\ UNCHANGED table
    /\ UNCHANGED notTableVars

\* the rows are flattened and joined
TableFlatten ==
    /\ pc = "table_start"
    /\ table # <<>>
    /\ table_md' = ParseTableToMarkdown(table)
    /\ pc' = "table_done"
    /\ UNCHANGED table
    /\ UNCHANGED notTableVars

NextTable == TableNoRows \/ TableFlatten

SpecTable == InitTable /\ [][NextTable]_vars

(***************************************************************************)
(* Claims about _parse_table_to_markdown (checked under SpecTable).        *)
(***************************************************************************)
\* the lines of the block returned
MdLines == IF table_md = <<>> THEN <<>> ELSE Split(table_md, <<"\n">>)

\* what a cell shows: its text, a single space when the text is empty
CellShown(cell) ==
    LET t == ExtractCellText(cell) IN IF t = <<>> THEN <<" ">> ELSE t

SpanFree(cell) == cell.rowspan = 1 /\ cell.colspan = 1

\* R rows of C >= 1 span-free cells each
SpanFreeGrid(t) ==
    \A r \in 1..Len(t) :
        /\ Len(t[r]) >= 1
        /\ Len(t[r]) = Len(t[1])
        /\ \A c \in 1..Len(t[r]) : SpanFree(t[r][c])

\* '| c1 | ... | cC |', built cell by cell
RECURSIVE ExpectedCells(_)
ExpectedCells(row) ==
    IF row = <<>> THEN <<>>
    ELSE <<" ">> \o CellShown(Head(row)) \o <<" ", "|">> \o ExpectedCells(Tail(row))

ExpectedRow(row) == <<"|">> \o ExpectedCells(row)

\* a separator row of n '---' cells
RECURSIVE ExpectedDashes(_)
ExpectedDashes(n) == IF n = 0 THEN <<>> ELSE <<"-", "-", "-", "|">> \o ExpectedDashes(n - 1)

ExpectedSeparator(n) == <<"|">> \o ExpectedDashes(n)

\* C9: a table of R >= 1 rows of C >= 1 span-free cells flattens to R + 1 lines:
\* the first row, a separator row of C '---' cells, then rows 2..R in order; a
\* table with no rows flattens to the empty string.
C9_SpanFreeGridLines ==
    pc = "table_done" =>
        /\ table = <<>> => table_md = <<>>
        /\ (table # <<>> /\ SpanFreeGrid(table)) =>
              LET lines == MdLines
              IN /\ Len(lines) = Len(table) + 1
                 /\ lines[1] = ExpectedRow(table[1])
                 /\ lines[2] = ExpectedSeparator(Len(table[1]))
                 /\ \A r \in 2..Len(table) : lines[r + 1] = ExpectedRow(table[r])

\* two different rows of two span-free cells
C9_Witness ==
    /\ pc = "table_done"
    /\ Len(table) = 2
    /\ SpanFreeGrid(table)
    /\ Len(table[1]) = 2
    /\ table[1] # table[2]
    /\ table[1][1] # table[1][2]

\* the cell, then colspan - 1 single-space cells
RECURSIVE ExpectedSpanCells(_)
ExpectedSpanCells(row) ==
    IF row = <<>> THEN <<>>
    ELSE <<" ">> \o CellShown(Head(row)) \o <<" ", "|">>
         \o Join(<<>>, [i \in 1..(Head(row).colspan - 1) |-> <<" ", " ", " ", "|">>])
         \o ExpectedSpanCells(Tail(row))

RECURSIVE SumColspan(_)
SumColspan(row) == IF row = <<>> THEN 0 ELSE Head(row).colspan + SumColspan(Tail(row))

CountBars(line) == Cardinality({i \in 1..Len(line) : line[i] = "|"})

\* the row lines of the block: its lines but the separator
DataLines ==
    LET lines == MdLines
    IN IF table # <<>> /\ table[1] # <<>> /\ Len(lines) >= 2
       THEN <<lines[1]>> \o SubSeq(lines, 3, Len(lines))
       ELSE lines

\* the table with every rowspan set to 1
RowspanOne(t) ==
    [r \in 1..Len(t) |-> [c \in 1..Len(t[r]) |-> [t[r][c] EXCEPT !.rowspan = 1]]]

\* C10: in its own row each cell contributes its text (a single space when
\* empty) followed by colspan - 1 single-space cells, so the row has
\* sum-of-colspans cells and is never empty; rowspan changes nothing.
C10_ColspanCellsRowspanIgnored ==
    pc = "table_done" =>
        LET rows == SelectSeq(table, NonEmpty)
            lines == DataLines
        IN /\ Len(lines) = Len(rows)
           /\ \A r \in 1..Len(rows) :
                 /\ lines[r] = <<"|">> \o ExpectedSpanCells(rows[r])
                 /\ lines[r] # <<>>
                 /\ CountBars(lines[r]) - 1 = SumColspan(rows[r])
           /\ ParseTableToMarkdown(RowspanOne(table)) = table_md

\* a row holding a spanning cell and an empty one, then another row
C10_Witness ==
    /\ pc = "table_done"
    /\ Len(table) = 2
    /\ table[2] # <<>>
    /\ \E c \in 1..Len(table[1]) : table[1][c].colspan > 1 /\ table[1][c].rowspan > 1
    /\ \E c \in 1..Len(table[1]) : ExtractCellText(table[1][c]) = <<>>

\* C11: the block is fixed-column: all the row lines and the separator line of
\* one table have the same number of columns.
C11_FixedColumnBlock ==
    pc = "table_done" =>
        LET lines == MdLines
        IN \A i, j \in 1..Len(lines) : CountBars(lines[i]) = CountBars(lines[j])

\* a separator row: '|---|...|---|'
IsSeparatorLine(line) == line = ExpectedSeparator(CountBars(line) - 1)

\* C25: every non-empty block has exactly one separator row, it is the second
\* line of the block, and it has one '---' per cell of the first line, also for
\* a table whose first row element contains no cells.
C25_OneSeparatorSecondLine ==
    (pc = "table_done" /\ table_md # <<>>) =>
        LET lines == MdLines
        IN /\ Len(lines) >= 2
           /\ lines[2] = ExpectedSeparator(CountBars(lines[1]) - 1)
           /\ Cardinality({n \in 1..Len(lines) : IsSeparatorLine(lines[n])}) = 1

(***************************************************************************)
(* _html_to_rich_text                                                      *)
(*                                                                         *)
(* The parsed body is the list of its elements: a paragraph with one text  *)
(* node, or a table with its rows.  A table that was replaced is a div     *)
(* holding the placeholder.                                                *)
(***************************************************************************)
\* f"__TABLE_{i}__"
Placeholder(i) == <<"_", "_", "T", "A", "B", "L", "E", "_">> \o IntStr(i) \o <<"_", "_">>

\* placeholder = soup.new_tag('div'); placeholder.string = f"__TABLE_{i}__"
PlaceholderDiv(i) == [kind |-> "div", text |-> Placeholder(i)]

\* the loop over enumerate(tables), from element k of the tree on, i tables
\* seen so far: the tree with the tables that flatten to something replaced,
\* and the markdown of those tables
RECURSIVE ReplaceTables(_, _)
ReplaceTables(nodes, i) ==
    IF nodes = <<>> THEN [soup |-> <<>>, mds |-> <<>>]
    ELSE LET node == Head(nodes)
         IN IF node.kind # "table"
            THEN LET rest == ReplaceTables(Tail(nodes), i)
                 IN [soup |-> <<node>> \o rest.soup, mds |-> rest.mds]
            ELSE LET md == ParseTableToMarkdown(node.rows)
                     rest == ReplaceTables(Tail(nodes), i + 1)
                 IN IF md # <<>>
                    THEN [soup |-> <<PlaceholderDiv(i)>> \o rest.soup,
                          mds |-> <<md>> \o rest.mds]
                    ELSE [soup |-> <<node>> \o rest.soup, mds |-> rest.mds]

\* the text nodes under the cells of the rows, in document order
RECURSIVE RowsTextNodes(_)
RowsTextNodes(rows) ==
    IF rows = <<>> THEN <<>>
    ELSE LET row == Head(rows)
         IN Join(<<>>, [c \in 1..Len(row) |-> row[c].nodes]) \o RowsTextNodes(Tail(rows))

\* the NavigableString descendants of the tree, in document order
RECURSIVE TextNodes(_)
TextNodes(nodes) ==
    IF nodes = <<>> THEN <<>>
    ELSE LET node == Head(nodes)
         IN (IF node.kind = "table" THEN RowsTextNodes(node.rows) ELSE <<node.text>>)
            \o TextNodes(Tail(nodes))

\* text = str(elem).strip(); text = text.replace('\r', '')
CleanTextNode(t) == Replace(Strip(t), <<"\r">>, <<>>)

\* text_parts: the cleaned text nodes that are not empty
TextParts(nodes) ==
    LET ts == TextNodes(nodes)
    IN SelectSeq([k \in 1..Len(ts) |-> CleanTextNode(ts[k])], NonEmpty)

\* the loop over enumerate(table_markdowns), from number i on: the placeholder
\* with that number, where present, becomes "\n\n" + md + "\n\n"
RECURSIVE SubstituteTables(_, _, _)
SubstituteTables(txt, mds, i) ==
    IF mds = <<>> THEN txt
    ELSE LET placeholder == Placeholder(i)
             block == <<"\n", "\n">> \o Head(mds) \o <<"\n", "\n">>
         IN SubstituteTables(IF Contains(txt, placeholder)
                             THEN Replace(txt, placeholder, block) ELSE txt,
                             Tail(mds), i + 1)

\* the elements a document of the model is made of
Intro == [kind |-> "p", text |-> <<"I", "n", "t", "r", "o">>]
Outro == [kind |-> "p", text |-> <<" ", "O", "u", "t", "r", "o", "\n">>]
Blank == [kind |-> "p", text |-> <<"\n", " ">>]
Spaced == [kind |-> "p", text |-> <<"Q", "\r", "\n", "\n", "\n", "\n", "R">>]
CellOf(t) == [nodes |-> <<t>>, rowspan |-> 1, colspan |-> 1]
TableAB == [kind |-> "table", rows |-> << <<CellOf(<<"A">>), CellOf(<<"B">>)>> >>]
TableC == [kind |-> "table", rows |-> << <<CellOf(<<"C">>)>> >>]
TableNoRow == [kind |-> "table", rows |-> <<>>]

NodePool == {Intro, Outro, Blank, Spaced, TableAB, TableC, TableNoRow}
Documents == UNION {[1..n -> NodePool] : n \in 0..MaxNodes}

InitRich ==
    /\ pc = "rich_start"
    /\ html \in Documents
    /\ soup = <<>> /\ table_markdowns = <<>> /\ full_text = <<>> /\ rich_text = <<>>
    /\ ChunkIdle
    /\ BatchIdle
    /\ TableIdle
    /\ LoaderIdle
    /\ ApiIdle
    /\ RateIdle
    /\ CliIdle

\* tables = soup.find_all('table') and the loop that flattens and replaces them
RichReplaceTables ==
    /\ pc = "rich_start"
    /\ LET r == ReplaceTables(html, 0)
       IN soup' = r.soup /\ table_markdowns' = r.mds
    /\ pc' = "rich_extract"
    /\ UNCHANGED <<html, full_text, rich_text>>
    /\ UNCHANGED notRichVars

\* the text nodes are collected and joined: full_text = '\n'.join(text_parts)
RichExtractText ==
    /\ pc = "rich_extract"
    /\ full_text' = Join(<<"\n">>, TextParts(soup))
    /\ pc' = "rich_substitute"
    /\ UNCHANGED <<html, soup, table_markdowns, rich_text>>
    /\ UNCHANGED notRichVars

\* the placeholders are replaced by the tables
RichSubstitute ==
    /\ pc = "rich_substitute"
    /\ full_text' = SubstituteTables(full_text, table_markdowns, 0)
    /\ pc' = "rich_clean"
    /\ UNCHANGED <<html, soup, table_markdowns, rich_text>>
    /\ UNCHANGED notRichVars

\* full_text = re.sub(r'\n{3,}', '\n\n', full_text); return full_text.strip()
RichClean ==
    /\ pc = "rich_clean"
    /\ rich_text' = Strip(CollapseNewlines(full_text))
    /\ pc' = "rich_done"
    /\ UNCHANGED <<html, soup, table_markdowns, full_text>>
    /\ UNCHANGED notRichVars

NextRich ==
    \/ RichReplaceTables
    \/ RichExtractText
    \/ RichSubstitute
    \/ RichClean

SpecRich == InitRich /\ [][NextRich]_vars

(***************************************************************************)
(* Claims about _html_to_rich_text (checked under SpecRich).               *)
(***************************************************************************)
\* what an element contributes: the text of a paragraph as it is extracted, the
\* block of a table; nothing when that is empty
RECURSIVE Blocks(_)
Blocks(nodes) ==
    IF nodes = <<>> THEN <<>>
    ELSE LET node == Head(nodes)
             b == IF node.kind = "table"
                  THEN [table |-> TRUE, text |-> ParseTableToMarkdown(node.rows)]
                  ELSE [table |-> FALSE,
                        text |-> CollapseNewlines(CleanTextNode(node.text))]
         IN (IF b.text # <<>> THEN <<b>> ELSE <<>>) \o Blocks(Tail(nodes))

\* the blocks in order: a blank line on each side of a table block, a line break
\* between two texts
RECURSIVE Assemble(_)
Assemble(bs) ==
    IF bs = <<>> THEN <<>>
    ELSE IF Len(bs) = 1 THEN bs[1].text
    ELSE bs[1].text
         \o (IF bs[1].table \/ bs[2].table THEN <<"\n", "\n">> ELSE <<"\n">>)
         \o Assemble(Tail(bs))

\* C8: for HTML made of narrative paragraphs and tables the result is the
\* narrative texts and the flattened table blocks in document order, each table
\* block with exactly one blank line before and after it.
C8_BlocksInDocumentOrder ==
    pc = "rich_done" => rich_text = Assemble(Blocks(html))

\* what the joined text holds for each element once the tables are put back:
\* the cleaned text of a paragraph, for a table that flattens to something its
\* own block between blank lines, for another table its text nodes
RECURSIVE PartsWithOwnBlocks(_)
PartsWithOwnBlocks(nodes) ==
    IF nodes = <<>> THEN <<>>
    ELSE LET node == Head(nodes)
             md == IF node.kind = "table" THEN ParseTableToMarkdown(node.rows) ELSE <<>>
         IN (IF md # <<>> THEN << <<"\n", "\n">> \o md \o <<"\n", "\n">> >>
             ELSE TextParts(<<node>>))
            \o PartsWithOwnBlocks(Tail(nodes))

\* C24: for any mix of tables that flatten to a block and tables that flatten to
\* the empty string, the block inserted at the position of the i-th table is
\* the flattening of that same table, never the block of another table.
C24_OwnBlockAtTablePosition ==
    pc \in {"rich_clean", "rich_done"} =>
        full_text = Join(<<"\n">>, PartsWithOwnBlocks(html))

\* '__TABLE_', the start of every placeholder marker
MarkerStart == <<"_", "_", "T", "A", "B", "L", "E", "_">>

\* C26: for HTML whose own text holds no '__TABLE_<i>__' marker the string
\* returned holds none: every placeholder is substituted back before returning.
C26_NoMarkerLeft ==
    (pc = "rich_done" /\ ~Contains(Join(<<"\n">>, TextNodes(html)), MarkerStart)) =>
        ~Contains(rich_text, MarkerStart)

\* C29: the string returned has no run of three or more newline characters and
\* no leading or trailing whitespace, also after the table blocks were put in.
C29_NewlinesCollapsedAndStripped ==
    pc = "rich_done" =>
        /\ ~Contains(rich_text, <<"\n", "\n", "\n">>)
        /\ rich_text # <<>> =>
              /\ rich_text[1] \notin Whitespace
              /\ rich_text[Len(rich_text)] \notin Whitespace

\* a document that starts with a table and whose text, with the blocks put in,
\* held a run of more than two newlines and whitespace at its end
C29_Witness ==
    /\ pc = "rich_done"
    /\ html # <<>> /\ html[1].kind = "table"
    /\ table_markdowns # <<>>
    /\ full_text[1] = "\n"
    /\ full_text[Len(full_text)] = "\n"
    /\ Contains(full_text, <<"\n", "\n", "\n", "\n">>)
    /\ rich_text # <<>>

(***************************************************************************)
(* hwp_to_text and HWPLoader                                               *)
(***************************************************************************)
\* what the machine does with one file: whether the path exists, and what
\* the hwp5txt tool does (missing, failing, or printing the text)
FileEnvs == [exists : BOOLEAN, tool : ToolOutcomes]

\* the stdout of hwp5txt for a file
StdoutOf(f) == <<"text of">> \o PathStr(f)

\* mutant of HwpToText: the tool is looked for before the path is checked
HwpToTextChecksToolFirst(f, env) ==
    IF env.tool = "DependencyError"
    THEN [raised |-> "DependencyError", value |-> None,
          ran |-> <<"check_command_exists">>]
    ELSE IF ~env.exists
    THEN [raised |-> "HWPFileNotFoundError", value |-> None,
          ran |-> <<"check_command_exists", "validate_file_exists">>]
    ELSE IF env.tool = "ConversionError"
    THEN [raised |-> "ConversionError", value |-> None,
          ran |-> <<"check_command_exists", "validate_file_exists", "run_command">>]
    ELSE [raised |-> None, value |-> StdoutOf(f),
          ran |-> <<"check_command_exists", "validate_file_exists", "run_command">>]

\* hwp_to_text(path) in environment env: the error raised (or None), the value
\* returned, and the calls made in order
HwpToText(f, env) ==
    IF ~env.exists
    THEN [raised |-> "HWPFileNotFoundError", value |-> None,
          ran |-> <<"validate_file_exists">>]
    ELSE IF env.tool = "DependencyError"
    THEN [raised |-> "DependencyError", value |-> None,
          ran |-> <<"validate_file_exists", "check_command_exists">>]
    ELSE IF env.tool = "ConversionError"
    THEN [raised |-> "ConversionError", value |-> None,
          ran |-> <<"validate_file_exists", "check_command_exists", "run_command">>]
    ELSE [raised |-> None, value |-> StdoutOf(f),
          ran |-> <<"validate_file_exists", "check_command_exists", "run_command">>]

\* the error classes that derive from Exception
ExceptionKinds ==
    {"HWPFileNotFoundError", "DependencyError", "ConversionError",
     "UnsupportedFormatError", "ValueError", "RuntimeError"}

\* except Exception as e
CaughtByExceptException(kind) == kind \in ExceptionKinds

\* Document(page_content=text, metadata={source, file_name, file_type})
Document(txt, file_path) ==
    [page_content |-> txt,
     metadata |-> [source |-> PathStr(file_path), file_name |-> PathName(file_path),
                   file_type |-> "hwp"]]

\* mutant of LoaderAfterFailure: the loop ends at the first failure
LoaderStopsAfterFailure(i, n) == n

\* the except branch only logs: the for loop goes on with the next path
LoaderAfterFailure(i, n) == i + 1

\* mutant of LazyAfterFailure: the generator ends at the first failure
LazyStopsAfterFailure(i, n) == n

\* the except branch of lazy_load only logs: its for loop goes on with the
\* next path
LazyAfterFailure(i, n) == i + 1

\* mutant of GeneratorAfterCall: the body starts running at the call
GeneratorRunsAtCall == "lazy_running"

\* calling a generator function runs none of its body
GeneratorAfterCall == "lazy_created"

\* the paths a loader of the model is given
LoaderPool ==
    {[dir |-> InputDir, stem |-> <<"f", 1>>, ext |-> "hwp"],
     [dir |-> InputDir \o <<"sub">>, stem |-> <<"f", 2>>, ext |-> "hwp"]}

\* one attempt of the loop body, as the history keeps it
LogEntry(r) == [pos |-> ld_i + 1, raised |-> r.raised, pulls |-> ld_pulls,
                yielded |-> Len(documents)]

\* HWPLoader(file_path): self.file_paths is set, nothing else happens
InitLoader ==
    /\ pc = "loader_start"
    /\ ld_env \in [LoaderPool -> FileEnvs]
    /\ file_paths \in UNION {[1..n -> LoaderPool] : n \in 0..MaxLoad}
    /\ ld_i = 0 /\ documents = <<>> /\ ld_pulls = 0 /\ ld_log = <<>>
    /\ loaded = <<>>
    /\ ChunkIdle
    /\ BatchIdle
    /\ TableIdle
    /\ RichIdle
    /\ ApiIdle
    /\ RateIdle
    /\ CliIdle

\* load(): documents = []
LoadCall ==
    /\ pc = "loader_start"
    /\ pc' = "load_loop"
    /\ UNCHANGED <<loaderVars, notLoaderVars>>

\* one iteration of load's loop, hwp_to_text returning
LoadExtractReturns ==
    /\ pc = "load_loop"
    /\ ld_i < Len(file_paths)
    /\ LET file_path == file_paths[ld_i + 1]
           r == HwpToText(file_path, ld_env[file_path])
       IN /\ r.raised = None
          /\ documents' = Append(documents, Document(r.value, file_path))
          /\ ld_log' = Append(ld_log, LogEntry(r))
    /\ ld_i' = ld_i + 1
    /\ UNCHANGED <<pc, ld_env, file_paths, ld_pulls, loaded>>
    /\ UNCHANGED notLoaderVars

\* one iteration of load's loop, hwp_to_text raising
LoadExtractRaises ==
    /\ pc = "load_loop"
    /\ ld_i < Len(file_paths)
    /\ LET file_path == file_paths[ld_i + 1]
           r == HwpToText(file_path, ld_env[file_path])
       IN /\ r.raised # None
          /\ ld_log' = Append(ld_log, LogEntry(r))
          /\ IF CaughtByExceptException(r.raised)
             THEN ld_i' = LoaderAfterFailure(ld_i, Len(file_paths)) /\ UNCHANGED pc
             ELSE pc' = "load_raised" /\ UNCHANGED ld_i
    /\ UNCHANGED <<ld_env, file_paths, documents, ld_pulls, loaded>>
    /\ UNCHANGED notLoaderVars

\* return documents
LoadReturn ==
    /\ pc = "load_loop"
    /\ ld_i = Len(file_paths)
    /\ loaded' = <<documents>>
    /\ pc' = "load_done"
    /\ UNCHANGED <<ld_env, file_paths, ld_i, documents, ld_pulls, ld_log>>
    /\ UNCHANGED notLoaderVars

\* lazy_load(): the generator object is created
LazyLoadCall ==
    /\ pc = "loader_start"
    /\ pc' = GeneratorAfterCall
    /\ UNCHANGED <<loaderVars, notLoaderVars>>

\* lazy_load() called on the loader after its load() returned: the generator
\* object is created, the consumer starts with nothing yielded
LazyLoadAfterLoad ==
    /\ pc = "load_done"
    /\ pc' = GeneratorAfterCall
    /\ ld_i' = 0 /\ documents' = <<>> /\ ld_pulls' = 0 /\ ld_log' = <<>>
    /\ UNCHANGED <<ld_env, file_paths, loaded>>
    /\ UNCHANGED notLoaderVars

\* the consumer calls next() on the iterator: the body runs from where it stopped
LazyNext ==
    /\ pc \in {"lazy_created", "lazy_suspended"}
    /\ ld_pulls' = ld_pulls + 1
    /\ pc' = "lazy_running"
    /\ UNCHANGED <<ld_env, file_paths, ld_i, documents, ld_log, loaded>>
    /\ UNCHANGED notLoaderVars

\* one iteration of lazy_load's loop, hwp_to_text returning: the Document is
\* yielded and the body stops there
LazyExtractYields ==
    /\ pc = "lazy_running"
    /\ ld_i < Len(file_paths)
    /\ LET file_path == file_paths[ld_i + 1]
           r == HwpToText(file_path, ld_env[file_path])
       IN /\ r.raised = None
          /\ documents' = Append(documents, Document(r.value, file_path))
          /\ ld_log' = Append(ld_log, LogEntry(r))
    /\ ld_i' = ld_i + 1
    /\ pc' = "lazy_suspended"
    /\ UNCHANGED <<ld_env, file_paths, ld_pulls, loaded>>
    /\ UNCHANGED notLoaderVars

\* one iteration of lazy_load's loop, hwp_to_text raising
LazyExtractRaises ==
    /\ pc = "lazy_running"
    /\ ld_i < Len(file_paths)
    /\ LET file_path == file_paths[ld_i + 1]
           r == HwpToText(file_path, ld_env[file_path])
       IN /\ r.raised # None
          /\ ld_log' = Append(ld_log, LogEntry(r))
          /\ IF CaughtByExceptException(r.raised)
             THEN ld_i' = LazyAfterFailure(ld_i, Len(file_paths)) /\ UNCHANGED pc
             ELSE pc' = "lazy_raised" /\ UNCHANGED ld_i
    /\ UNCHANGED <<ld_env, file_paths, documents, ld_pulls, loaded>>
    /\ UNCHANGED notLoaderVars

\* the loop is over inside a next(): StopIteration
LazyExhausted ==
    /\ pc = "lazy_running"
    /\ ld_i = Len(file_paths)
    /\ pc' = "lazy_done"
    /\ UNCHANGED <<loaderVars, notLoaderVars>>

NextLoader ==
    \/ LoadCall
    \/ LoadExtractReturns
    \/ LoadExtractRaises
    \/ LoadReturn
    \/ LazyLoadCall
    \/ LazyLoadAfterLoad
    \/ LazyNext
    \/ LazyExtractYields
    \/ LazyExtractRaises
    \/ LazyExhausted

SpecLoader == InitLoader /\ [][NextLoader]_vars

(***************************************************************************)
(* Claims about HWPLoader (checked under SpecLoader).                      *)
(***************************************************************************)
\* the extraction of a file succeeds: it exists and the tool prints its text
Extractable(f) == ld_env[f].exists /\ ld_env[f].tool = "ok"

\* one Document per extractable path, in the order of the paths
RECURSIVE ExpectedDocuments(_)
ExpectedDocuments(paths) ==
    IF paths = <<>> THEN <<>>
    ELSE LET f == Head(paths)
         IN (IF Extractable(f)
             THEN << [page_content |-> StdoutOf(f),
                      metadata |-> [source |-> PathStr(f),
                                    file_name |-> <<f.stem, ".", f.ext>>,
                                    file_type |-> "hwp"]] >>
             ELSE <<>>) \o ExpectedDocuments(Tail(paths))

\* C13: load never raises because a file's extraction failed; it returns one
\* Document per file whose extraction succeeded, in the order of file_paths,
\* with page_content the extracted text and metadata source, file_name and
\* file_type = 'hwp'.
C13_LoadSkipsFailedFiles ==
    /\ pc # "load_raised"
    /\ pc = "load_done" => documents = ExpectedDocuments(file_paths)

\* a failing file, then a good one, then the failing one again
C13_Witness ==
    /\ pc = "load_done"
    /\ Len(file_paths) = 3
    /\ ~Extractable(file_paths[1])
    /\ Extractable(file_paths[2])
    /\ file_paths[3] = file_paths[1]
    /\ Len(documents) = 1

LazyPcs == {"lazy_created", "lazy_running", "lazy_suspended", "lazy_done", "lazy_raised"}

\* C14: lazy_load extracts on demand: nothing is extracted when the iterator is
\* created, the file at position k is attempted only during the pull that
\* follows the pulls of all the documents yielded for earlier positions, and a
\* failure is met (and skipped) only during the pull that reaches it.
C14_LazyExtractsOnDemand ==
    pc \in LazyPcs =>
        /\ ld_pulls = 0 => ld_log = <<>>
        /\ pc # "lazy_raised"
        /\ \A k \in 1..Len(ld_log) :
              /\ ld_log[k].pos = k
              /\ ld_log[k].pulls = ld_log[k].yielded + 1
        /\ Len(documents) <= ld_pulls

\* the second pull met a failing file after the first pull's document, with a
\* path left that was not attempted yet
C14_Witness ==
    /\ pc = "lazy_running"
    /\ ld_pulls = 2
    /\ Len(ld_log) = 2
    /\ ld_log[1].raised = None
    /\ ld_log[2].raised # None
    /\ Len(file_paths) = 3

\* C30: eager and lazy loading agree: for the same file_paths and the same
\* per-file extraction outcomes, the documents obtained by consuming
\* lazy_load() to its end are the list load() returned: same documents, same
\* order, same files skipped.
C30_LazyEqualsEager ==
    (pc = "lazy_done" /\ loaded # <<>>) => documents = loaded[1]

\* both calls skipped the failing file between two good ones
C30_Witness ==
    /\ pc = "lazy_done"
    /\ loaded # <<>>
    /\ Len(file_paths) = 3
    /\ Extractable(file_paths[1])
    /\ ~Extractable(file_paths[2])
    /\ Extractable(file_paths[3])
    /\ Len(loaded[1]) = 2
    /\ Len(documents) = 2

(***************************************************************************)
(* convert, hwp_to_text and HWPReader, each called on one path             *)
(***************************************************************************)
\* the path the calls are made on (its suffix is an argument of convert)
ApiPath == [dir |-> InputDir, stem |-> <<"doc">>, ext |-> "hwp"]

\* the arguments convert is called with: the suffix of input_path, input_format,
\* the suffix of output_path (None: no output_path) and output_format
ConvertArgs ==
    [in_ext : {"hwp", "HWP", "md", "bin"},
     input_format : {None, "HWP", "markdown"},
     out_ext : {None, "txt", "PDF", "hwpx"},
     output_format : {None, "TXT", "pdf", "docx"}]

\* the cached properties of HWPReader
Properties == {"text", "html", "rich_text"}

\* what an extraction can return
ExtractedValues == {"", "v1", "v2"}

\* what an extraction can raise
ExtractionErrors == {"DependencyError", "ConversionError"}

\* the slot a property is cached in
Slot(prop) ==
    CASE prop = "text" -> _text
      [] prop = "html" -> _html
      [] prop = "rich_text" -> _rich_text

\* mutant of IsCached: an empty result counts as missing
IsCachedTruthy(v) == v # None /\ v # ""

\* the test the properties make: self._text is None
IsCached(v) == v # None

InitApi ==
    /\ pc = "api_start"
    /\ api_env \in FileEnvs
    /\ api_args = <<>> /\ api_result = <<>>
    /\ _text = None /\ _html = None /\ _rich_text = None
    /\ rd_runs = <<>> /\ rd_hist = <<>>
    /\ ChunkIdle
    /\ BatchIdle
    /\ TableIdle
    /\ RichIdle
    /\ LoaderIdle
    /\ RateIdle
    /\ CliIdle

readerVars == <<_text, _html, _rich_text, rd_runs, rd_hist>>

\* convert(input_path, output_path, input_format=..., output_format=...)
ApiConvert ==
    /\ pc = "api_start"
    /\ \E a \in ConvertArgs :
          /\ api_args' = a
          /\ api_result' = Convert(api_env.exists, a.in_ext, a.input_format, a.out_ext,
                                   a.output_format, api_env.tool)
    /\ pc' = "convert_done"
    /\ UNCHANGED <<api_env, readerVars>>
    /\ UNCHANGED notApiVars

\* hwp_to_text(path)
ApiHwpToText ==
    /\ pc = "api_start"
    /\ api_result' = HwpToText(ApiPath, api_env)
    /\ pc' = "text_done"
    /\ UNCHANGED <<api_env, api_args, readerVars>>
    /\ UNCHANGED notApiVars

\* HWPReader(path): validate_file_exists, then the three slots are set to None
ReaderInit ==
    /\ pc = "api_start"
    /\ IF api_env.exists
       THEN /\ api_result' = [raised |-> None, ran |-> <<"validate_file_exists">>]
            /\ rd_runs' = [p \in Properties |-> 0]
            /\ pc' = "reader_ready"
       ELSE /\ api_result' = [raised |-> "HWPFileNotFoundError",
                              ran |-> <<"validate_file_exists">>]
            /\ pc' = "reader_raised"
            /\ UNCHANGED rd_runs
    /\ UNCHANGED <<api_env, api_args, _text, _html, _rich_text, rd_hist>>
    /\ UNCHANGED notApiVars

\* reader.<prop> with the slot filled: the slot is returned
ReaderGetCached ==
    /\ pc = "reader_ready"
    /\ Len(rd_hist) < MaxAccess
    /\ \E prop \in Properties :
          /\ IsCached(Slot(prop))
          /\ rd_hist' = Append(rd_hist, [prop |-> prop, raised |-> None,
                                         value |-> Slot(prop), runs |-> rd_runs[prop]])
    /\ UNCHANGED <<pc, api_env, api_args, api_result, _text, _html, _rich_text, rd_runs>>
    /\ UNCHANGED notApiVars

\* reader.<prop> with the slot empty, the extraction returning v: v is stored
\* in the slot and returned
ReaderGetExtracts ==
    /\ pc = "reader_ready"
    /\ Len(rd_hist) < MaxAccess
    /\ \E prop \in Properties, v \in ExtractedValues :
          /\ ~IsCached(Slot(prop))
          /\ _text' = IF prop = "text" THEN v ELSE _text
          /\ _html' = IF prop = "html" THEN v ELSE _html
          /\ _rich_text' = IF prop = "rich_text" THEN v ELSE _rich_text
          /\ rd_runs' = [rd_runs EXCEPT ![prop] = @ + 1]
          /\ rd_hist' = Append(rd_hist, [prop |-> prop, raised |-> None, value |-> v,
                                         runs |-> rd_runs[prop] + 1])
    /\ UNCHANGED <<pc, api_env, api_args, api_result>>
    /\ UNCHANGED notApiVars

\* reader.<prop> with the slot empty, the extraction raising: the slot stays None
ReaderGetRaises ==
    /\ pc = "reader_ready"
    /\ Len(rd_hist) < MaxAccess
    /\ \E prop \in Properties, kind \in ExtractionErrors :
          /\ ~IsCached(Slot(prop))
          /\ rd_runs' = [rd_runs EXCEPT ![prop] = @ + 1]
          /\ rd_hist' = Append(rd_hist, [prop |-> prop, raised |-> kind, value |-> None,
                                         runs |-> rd_runs[prop] + 1])
    /\ UNCHANGED <<pc, api_env, api_args, api_result, _text, _html, _rich_text>>
    /\ UNCHANGED notApiVars

NextApi ==
    \/ ApiConvert
    \/ ApiHwpToText
    \/ ReaderInit
    \/ ReaderGetCached
    \/ ReaderGetExtracts
    \/ ReaderGetRaises

SpecApi == InitApi /\ [][NextApi]_vars

(***************************************************************************)
(* Claims about HWPReader, convert and hwp_to_text (checked under SpecApi).*)
(***************************************************************************)
\* the accesses of a property that returned a value
Successes(prop) ==
    {i \in 1..Len(rd_hist) : rd_hist[i].prop = prop /\ rd_hist[i].raised = None}

C16_MissingPathReportedFirst ==
    (pc \in {"convert_done", "text_done", "reader_ready", "reader_raised"}
     /\ ~api_env.exists) =>
        /\ api_result.raised = "HWPFileNotFoundError"
        /\ api_result.ran = <<"validate_file_exists">>

\* convert on a missing path, with an unregistered pair and the tool missing
C16_Witness ==
    /\ pc = "convert_done"
    /\ ~api_env.exists
    /\ api_env.tool = "DependencyError"
    /\ api_args.in_ext = "bin"
    /\ api_args.input_format = None
    /\ api_args.output_format = "docx"

\* lower-casing, for the format names the calls of the model use
LowerCased(f) ==
    CASE f = "HWP" -> "hwp"
      [] f = "TXT" -> "txt"
      [] f = "PDF" -> "pdf"
      [] OTHER -> f

\* the pair of a convert call: each format from the explicit argument or else
\* from the file extension (None: no output format can be determined)
RequestedPair(a) ==
    LET i == IF a.input_format # None THEN a.input_format
             ELSE GetFormatFromExtension(a.in_ext)
        o == IF a.output_format # None THEN a.output_format
             ELSE IF a.out_ext # None THEN GetFormatFromExtension(a.out_ext)
             ELSE None
    IN IF o = None THEN None ELSE <<LowerCased(i), LowerCased(o)>>

\* C17: for an existing input, convert raises UnsupportedFormatError exactly
\* when the lower-cased pair of formats, from the arguments or else from the
\* extensions, is not registered; the error carries the list of all the
\* registered pairs and no converter function is called.
C17_UnsupportedIffUnregistered ==
    (pc = "convert_done" /\ api_env.exists) =>
        LET pair == RequestedPair(api_args)
            unsupported == api_result.raised = "UnsupportedFormatError"
        IN /\ unsupported <=> (pair # None /\ pair \notin SupportedConversions)
           /\ unsupported =>
                 /\ api_result.supported =
                        {<<k[1], "→", k[2]>> : k \in SupportedConversions}
                 /\ Cardinality(api_result.supported) = Cardinality(SupportedConversions)
                 /\ api_result.called = None
                 /\ \A n \in 1..Len(api_result.ran) : api_result.ran[n] # "converter_func"

\* explicit formats that override the extensions and are not a registered pair
C17_Witness ==
    /\ pc = "convert_done"
    /\ api_env.exists
    /\ api_args.in_ext = "md"
    /\ api_args.input_format = "HWP"
    /\ api_args.out_ext = "PDF"
    /\ api_args.output_format = "docx"
    /\ api_result.raised = "UnsupportedFormatError"

(***************************************************************************)
(* BatchResult.success_rate                                                *)
(*                                                                         *)
(* A float that is the quotient of two integers is kept as the fraction    *)
(* num / den.                                                              *)
(***************************************************************************)
\* n / d on integers: ZeroDivisionError when d is 0
TrueDiv(n, d) ==
    IF d = 0 THEN [raised |-> "ZeroDivisionError", num |-> 0, den |-> 0]
    ELSE [raised |-> None, num |-> n, den |-> d]

\* the float 0.0
FloatZero == [raised |-> None, num |-> 0, den |-> 1]

\* mutant of SuccessRate: the quotient without the test on total
SuccessRateUnguarded(r) == TrueDiv(r.success, r.total)

\* return self.success / self.total if self.total > 0 else 0.0
SuccessRate(r) == IF r.total > 0 THEN TrueDiv(r.success, r.total) ELSE FloatZero

\* the BatchResult objects of the model (the dataclass accepts any integers)
BatchResults ==
    [total : (-1)..MaxTotal, success : (-1)..MaxTotal, failed : 0..1,
     errors : {NoErrors}]

InitRate ==
    /\ pc = "rate_start"
    /\ batch_result \in BatchResults
    /\ success_rate = <<>>
    /\ ChunkIdle
    /\ BatchIdle
    /\ TableIdle
    /\ RichIdle
    /\ LoaderIdle
    /\ ApiIdle
    /\ CliIdle

\* result.success_rate
SuccessRateGet ==
    /\ pc = "rate_start"
    /\ success_rate' = SuccessRate(batch_result)
    /\ pc' = "rate_done"
    /\ UNCHANGED batch_result
    /\ UNCHANGED notRateVars

NextRate == SuccessRateGet

SpecRate == InitRate /\ [][NextRate]_vars

(***************************************************************************)
(* Claims about BatchResult.success_rate (checked under SpecRate).         *)
(***************************************************************************)
\* C19: success_rate is success / total when total > 0 and 0.0, with no division
\* error, when total = 0; for 0 <= success <= total it lies between 0 and 1.
C19_SuccessRateValue ==
    pc = "rate_done" =>
        LET r == batch_result
            q == success_rate
        IN /\ r.total >= 0 => q.raised = None /\ q.den > 0
           /\ r.total > 0 => q.num * r.total = r.success * q.den
           /\ r.total = 0 => q.num = 0
           /\ (0 <= r.success /\ r.success <= r.total) => (0 <= q.num /\ q.num <= q.den)

\* total=0 with a non-zero success count
C19_Witness ==
    /\ pc = "rate_done"
    /\ batch_result.total = 0
    /\ batch_result.success = 1
    /\ success_rate = FloatZero

(***************************************************************************)
(* cli.main                                                                *)
(***************************************************************************)
\* the classes an error is an instance of
ClassesOf(kind) ==
    CASE kind = "HWPFileNotFoundError" ->
             {"HWPFileNotFoundError", "HWPParserError", "FileNotFoundError", "Exception"}
      [] kind = "DependencyError" -> {"DependencyError", "HWPParserError", "Exception"}
      [] kind = "ConversionError" -> {"ConversionError", "HWPParserError", "Exception"}
      [] kind = "UnsupportedFormatError" ->
             {"UnsupportedFormatError", "HWPParserError", "Exception"}
      [] kind = "KeyboardInterrupt" -> {"KeyboardInterrupt"}
      [] OTHER -> {kind, "Exception"}

\* the except clauses of main, in order: the class caught, the prefix printed
\* to stderr and the value returned. The Korean prefixes are written in
\* romanised form: "oryu: " (error), "uijonseong oryu: " (dependency error),
\* "byeonhwan oryu: " (conversion error), "jungdandoem" (interrupted)
ExceptClauses ==
    << [class |-> "HWPFileNotFoundError", prefix |-> "oryu: ", code |-> 1],
       [class |-> "DependencyError", prefix |-> "uijonseong oryu: ", code |-> 1],
       [class |-> "ConversionError", prefix |-> "byeonhwan oryu: ", code |-> 1],
       [class |-> "HWPParserError", prefix |-> "oryu: ", code |-> 1],
       [class |-> "KeyboardInterrupt", prefix |-> "jungdandoem", code |-> 130] >>

\* the first clause that catches the error, 0 when none does
FirstClause(kind) ==
    LET hits == {n \in 1..Len(ExceptClauses) : ExceptClauses[n].class \in ClassesOf(kind)}
    IN IF hits = {} THEN 0 ELSE CHOOSE n \in hits : \A m \in hits : n <= m

\* what main does with an error of the handler: the code returned and the
\* prefix printed, or the error leaving main
HandleError(kind) ==
    LET n == FirstClause(kind)
    IN IF n = 0 THEN [propagates |-> TRUE, code |-> 0, prefix |-> None]
       ELSE [propagates |-> FALSE, code |-> ExceptClauses[n].code,
             prefix |-> ExceptClauses[n].prefix]

\* the command lines of the model: no command, formats, text INPUT,
\* convert INPUT OUTPUT [-f FMT] [-t FMT]
CliArgvs ==
    {[command |-> c, args |-> <<>>] : c \in {None, "formats", "text"}}
    \cup {[command |-> "convert", args |-> a] :
            a \in {x \in ConvertArgs : x.out_ext # None}}

\* what the handler of the command raises (None: it returns 0)
HandlerRaises(av, env) ==
    CASE av.command = "convert" ->
             Convert(env.exists, av.args.in_ext, av.args.input_format, av.args.out_ext,
                     av.args.output_format, env.tool).raised
      [] av.command = "text" -> HwpToText(ApiPath, env).raised
      [] OTHER -> None

InitCli ==
    /\ pc = "cli_start"
    /\ cli_env \in FileEnvs
    /\ argv \in CliArgvs
    /\ cli_raised = None /\ exit_code = 0 /\ stderr_prefix = None
    /\ ChunkIdle
    /\ BatchIdle
    /\ TableIdle
    /\ RichIdle
    /\ LoaderIdle
    /\ ApiIdle
    /\ RateIdle

\* if args.command is None: parser.print_help(); return 1
CliNoCommand ==
    /\ pc = "cli_start"
    /\ argv.command = None
    /\ exit_code' = 1
    /\ pc' = "cli_done"
    /\ UNCHANGED <<cli_env, argv, cli_raised, stderr_prefix>>
    /\ UNCHANGED notCliVars

\* return handler(args), the handler returning
CliHandlerReturns ==
    /\ pc = "cli_start"
    /\ argv.command # None
    /\ HandlerRaises(argv, cli_env) = None
    /\ exit_code' = 0
    /\ pc' = "cli_done"
    /\ UNCHANGED <<cli_env, argv, cli_raised, stderr_prefix>>
    /\ UNCHANGED notCliVars

\* the handler raising: the first matching except clause prints and returns
CliHandlerRaises ==
    /\ pc = "cli_start"
    /\ argv.command # None
    /\ LET kind == HandlerRaises(argv, cli_env)
           h == HandleError(kind)
       IN /\ kind # None
          /\ cli_raised' = kind
          /\ IF h.propagates
             THEN pc' = "cli_raised" /\ UNCHANGED <<exit_code, stderr_prefix>>
             ELSE /\ pc' = "cli_done"
                  /\ exit_code' = h.code
                  /\ stderr_prefix' = h.prefix
    /\ UNCHANGED <<cli_env, argv>>
    /\ UNCHANGED notCliVars

NextCli ==
    \/ CliNoCommand
    \/ CliHandlerReturns
    \/ CliHandlerRaises

SpecCli == InitCli /\ [][NextCli]_vars

(***************************************************************************)
(* Claims about cli.main (checked under SpecCli).                          *)
(***************************************************************************)
ErrorKinds ==
    {"HWPFileNotFoundError", "DependencyError", "ConversionError",
     "UnsupportedFormatError"}

\* C20: for each of the four error kinds raised by a handler main returns a
\* non-zero exit code, and no two kinds share both the exit code and the prefix
\* printed to stderr: what main did for one kind is not what it does for another.
C20_KindsToldApart ==
    (pc = "cli_done" /\ cli_raised \in ErrorKinds) =>
        /\ exit_code # 0
        /\ \A other \in ErrorKinds \ {cli_raised} :
              ~(HandleError(other).code = exit_code
                /\ HandleError(other).prefix = stderr_prefix)

====
